---- MODULE Spec2Model ----
(***************************************************************************)
(* Retrieval-augmented question answering over movie scripts.              *)
(*                                                                         *)
(*   backend/backend.py                      the online service            *)
(*   codigos_procesamiento_de_scripts/       the offline pipeline          *)
(*       generate_embeddings_local.py        embeddings, worker pool       *)
(*       generate_embeddings_online_request.py   embeddings, one by one    *)
(*       create_vector_db.py                 index build                   *)
(*                                                                         *)
(* Python strings are sequences of one-character strings, so that lower(), *)
(* replace(), split(), join() and the `in` test are computed as Python     *)
(* computes them.  Python lists are sequences; list positions returned by  *)
(* the vector search are 0-based, as in the code.                          *)
(***************************************************************************)
EXTENDS Integers, Sequences, FiniteSets, TLC

VARIABLES
    selected_movies,    \* backend.py: module-level list
    index,              \* backend.py: the loaded vector index
    metadata,           \* backend.py: the loaded chunk identifiers, in index order
    movies_data,        \* backend.py: the loaded movie catalog
    scripts_chunks,     \* the directory SCRIPTS_DIR: chunk file name -> content
    pc,                 \* position of the request being handled
    request,            \* the QueryRequest being handled
    relevant_movies,    \* handle_query local
    similar_fragments,  \* handle_query local
    context,            \* handle_query local
    response,           \* what the client receives
    calls,              \* remote calls made for the current request, per endpoint
    similar,            \* get_similar_fragments local: the chunks of the search hits
    outcomes,           \* how each remote endpoint answered the current request
    chat_content,       \* message content of the chat endpoint's answer
    raised,             \* the exception a pipeline step raised for the current request
    build,              \* create_vector_db.py: state of the offline index build
    trunc,              \* truncate_context applied to a drawn input
    gen                 \* generate_embeddings_*.py: state of an embedding generator run

vars == << selected_movies, index, metadata, movies_data, scripts_chunks, pc,
           request, relevant_movies, similar_fragments, context, response,
           calls, similar, outcomes, chat_content, raised, build, trunc, gen >>

(***************************************************************************)
(* Bounds of the model.                                                    *)
(***************************************************************************)
MaxChunks == 2      \* embedding files present when the index is built
MaxLen == 5         \* length of a context drawn for truncate_context
MaxTokens == 2      \* largest word budget drawn for truncate_context

(***************************************************************************)
(* The parts of the state a specification does not use.                    *)
(***************************************************************************)
ServiceIdle ==
    /\ selected_movies = << >>
    /\ index = [d |-> 0, vectors |-> << >>]
    /\ metadata = << >>
    /\ movies_data = << >>
    /\ scripts_chunks = << >>
    /\ pc = "off"
    /\ request = << >>
    /\ relevant_movies = << >>
    /\ similar_fragments = << >>
    /\ context = << >>
    /\ response = << >>
    /\ calls = << >>
    /\ similar = << >>
    /\ outcomes = << >>
    /\ chat_content = ""
    /\ raised = << >>

serviceVars == << selected_movies, index, metadata, movies_data, scripts_chunks,
                  pc, request, relevant_movies, similar_fragments, context,
                  response, calls, similar, outcomes, chat_content, raised >>

BuildIdle == build = [pc |-> "off"]

TruncIdle == trunc = [pc |-> "off"]
GenIdle == gen = [pc |-> "off"]

(***************************************************************************)
(* Python str operations.                                                  *)
(***************************************************************************)
Min(S) == CHOOSE x \in S : \A y \in S : x <= y

UpperToLower ==
    [c \in {"A","B","C","D","E","F","G","H","I","J","K","L","M",
            "N","O","P","Q","R","S","T","U","V","W","X","Y","Z"} |->
        CASE c = "A" -> "a" [] c = "B" -> "b" [] c = "C" -> "c" [] c = "D" -> "d"
          [] c = "E" -> "e" [] c = "F" -> "f" [] c = "G" -> "g" [] c = "H" -> "h"
          [] c = "I" -> "i" [] c = "J" -> "j" [] c = "K" -> "k" [] c = "L" -> "l"
          [] c = "M" -> "m" [] c = "N" -> "n" [] c = "O" -> "o" [] c = "P" -> "p"
          [] c = "Q" -> "q" [] c = "R" -> "r" [] c = "S" -> "s" [] c = "T" -> "t"
          [] c = "U" -> "u" [] c = "V" -> "v" [] c = "W" -> "w" [] c = "X" -> "x"
          [] c = "Y" -> "y" [] c = "Z" -> "z"]

\* str.lower()
lower(s) ==
    [i \in 1..Len(s) |-> IF s[i] \in DOMAIN UpperToLower THEN UpperToLower[s[i]] ELSE s[i]]

\* s[i:i+len(sub)] == sub, with i a 1-based position
MatchesAt(s, sub, i) ==
    /\ i + Len(sub) - 1 <= Len(s)
    /\ \A k \in 1..Len(sub) : s[i + k - 1] = sub[k]

\* str.find(sub, i), 1-based; 0 when sub does not occur at or after i
Find(s, sub, i) ==
    LET J == {j \in i..(Len(s) - Len(sub) + 1) : MatchesAt(s, sub, j)}
    IN  IF J = {} THEN 0 ELSE Min(J)

\* sub in s
Contains(sub, s) == Find(s, sub, 1) # 0

RECURSIVE ReplaceFrom(_, _, _, _)
ReplaceFrom(s, old, new, i) ==
    LET j == Find(s, old, i)
    IN  IF j = 0 THEN SubSeq(s, i, Len(s))
        ELSE SubSeq(s, i, j - 1) \o new \o ReplaceFrom(s, old, new, j + Len(old))

\* str.replace(old, new), old non-empty: every occurrence, left to right
replace(s, old, new) == ReplaceFrom(s, old, new, 1)

\* str.split(sep)[0]: the part before the first occurrence of sep
SplitFirst(s, sep) ==
    LET j == Find(s, sep, 1)
    IN  IF j = 0 THEN s ELSE SubSeq(s, 1, j - 1)

\* str.endswith(suffix)
endswith(s, suffix) ==
    /\ Len(suffix) <= Len(s)
    /\ SubSeq(s, Len(s) - Len(suffix) + 1, Len(s)) = suffix

Whitespace == {" ", "\n", "\t"}

\* the end of the run of non-whitespace characters that starts at i
RECURSIVE WordEnd(_, _)
WordEnd(s, i) ==
    IF i < Len(s) /\ s[i + 1] \notin Whitespace THEN WordEnd(s, i + 1) ELSE i

RECURSIVE SplitFrom(_, _)
SplitFrom(s, i) ==
    IF i > Len(s) THEN << >>
    ELSE IF s[i] \in Whitespace THEN SplitFrom(s, i + 1)
    ELSE LET e == WordEnd(s, i)
         IN  << SubSeq(s, i, e) >> \o SplitFrom(s, e + 1)

\* str.split(): the maximal runs of non-whitespace characters
split(s) == SplitFrom(s, 1)

\* ' '.join(words)
RECURSIVE join(_)
join(words) ==
    IF words = << >> THEN << >>
    ELSE IF Len(words) = 1 THEN words[1]
    ELSE words[1] \o << " " >> \o join(Tail(words))

\* list[:n] for n >= 0
Take(list, n) == SubSeq(list, 1, IF n < Len(list) THEN n ELSE Len(list))

IsPrefix(p, s) == Len(p) <= Len(s) /\ SubSeq(s, 1, Len(p)) = p

(***************************************************************************)
(* difflib.get_close_matches, as get_relevant_movies calls it.             *)
(* SequenceMatcher(a = possibility, b = word), no junk; a ratio 2*M/T is   *)
(* kept as the pair M, T and compared exactly.                             *)
(***************************************************************************)
\* length of the common run of a[i..ahi] and b[j..bhi]
RECURSIVE RunLen(_, _, _, _, _, _)
RunLen(a, b, i, j, ahi, bhi) ==
    IF i <= ahi /\ j <= bhi /\ a[i] = b[j]
    THEN 1 + RunLen(a, b, i + 1, j + 1, ahi, bhi)
    ELSE 0

\* SequenceMatcher.find_longest_match: the longest block, of those the one
\* starting earliest in a, of those the one starting earliest in b
find_longest_match(a, b, alo, ahi, blo, bhi) ==
    LET C == {p \in (alo..ahi) \X (blo..bhi) : a[p[1]] = b[p[2]]}
        K(p) == RunLen(a, b, p[1], p[2], ahi, bhi)
        Better(p, q) ==
            \/ K(p) > K(q)
            \/ K(p) = K(q) /\ p[1] < q[1]
            \/ K(p) = K(q) /\ p[1] = q[1] /\ p[2] <= q[2]
    IN  IF C = {} THEN [i |-> alo, j |-> blo, k |-> 0]
        ELSE LET best == CHOOSE p \in C : \A q \in C : Better(p, q)
             IN  [i |-> best[1], j |-> best[2], k |-> K(best)]

\* SequenceMatcher.get_matching_blocks: the total size of the blocks
RECURSIVE MatchTotal(_, _, _, _, _, _)
MatchTotal(a, b, alo, ahi, blo, bhi) ==
    IF alo > ahi \/ blo > bhi THEN 0
    ELSE LET m == find_longest_match(a, b, alo, ahi, blo, bhi)
         IN  IF m.k = 0 THEN 0
             ELSE m.k + MatchTotal(a, b, alo, m.i - 1, blo, m.j - 1)
                      + MatchTotal(a, b, m.i + m.k, ahi, m.j + m.k, bhi)

Count(s, c) == Cardinality({i \in 1..Len(s) : s[i] = c})

\* the characters of S counted as often as they occur in both a and b
RECURSIVE SumOver(_, _, _)
SumOver(S, a, b) ==
    IF S = {} THEN 0
    ELSE LET c == CHOOSE x \in S : TRUE
             n == IF Count(a, c) < Count(b, c) THEN Count(a, c) ELSE Count(b, c)
         IN  n + SumOver(S \ {c}, a, b)

\* 2*matches/length >= tenths/10; an empty pair of sequences has ratio 1
RatioAtLeast(matches, length, tenths) ==
    IF length = 0 THEN TRUE ELSE 20 * matches >= tenths * length

real_quick_matches(a, b) == IF Len(a) < Len(b) THEN Len(a) ELSE Len(b)

quick_matches(a, b) == SumOver({a[i] : i \in 1..Len(a)}, a, b)

ratio_matches(a, b) == MatchTotal(a, b, 1, Len(a), 1, Len(b))

\* code-point order of the characters of the normalized movie names
AsciiOrder ==
    << " ", "-", "0", "1", "2", "3", "4", "5", "6", "7", "8", "9", "_",
       "a", "b", "c", "d", "e", "f", "g", "h", "i", "j", "k", "l", "m",
       "n", "o", "p", "q", "r", "s", "t", "u", "v", "w", "x", "y", "z" >>

Ord(c) == CHOOSE i \in 1..Len(AsciiOrder) : AsciiOrder[i] = c

\* Python's s < t on strings
RECURSIVE StrLess(_, _)
StrLess(s, t) ==
    IF t = << >> THEN FALSE
    ELSE IF s = << >> THEN TRUE
    ELSE IF s[1] = t[1] THEN StrLess(Tail(s), Tail(t))
    ELSE Ord(s[1]) < Ord(t[1])

\* get_close_matches(word, possibilities, n=1, cutoff): the possibilities
\* scoring at least the cutoff, and of those the largest (score, x)
get_close_matches(word, possibilities, tenths) ==
    LET T(x) == Len(x) + Len(word)
        Passes(x) ==
            /\ RatioAtLeast(real_quick_matches(x, word), T(x), tenths)
            /\ RatioAtLeast(quick_matches(x, word), T(x), tenths)
            /\ RatioAtLeast(ratio_matches(x, word), T(x), tenths)
        result == {i \in 1..Len(possibilities) : Passes(possibilities[i])}
        \* (score, x) of i is below (score, x) of j
        Below(i, j) ==
            LET x == possibilities[i]
                y == possibilities[j]
                mx == ratio_matches(x, word) * T(y)
                my == ratio_matches(y, word) * T(x)
            IN  mx < my \/ (mx = my /\ StrLess(x, y))
    IN  IF result = {} THEN << >>
        ELSE << possibilities[CHOOSE i \in result : \A j \in result : ~Below(i, j)] >>

(***************************************************************************)
(* backend.py: get_relevant_movies                                         *)
(***************************************************************************)
InList(x, list) == \E i \in 1..Len(list) : list[i] = x

normalized_name(movie) == replace(replace(lower(movie), << "_" >>, << " " >>), << "-" >>, << " " >>)

get_relevant_movies_both_stages(query, movies, cutoff_tenths) ==
    LET query_lower == lower(query)
        Mentioned(m) == Contains(normalized_name(m), query_lower)
        movie_names == [i \in 1..Len(movies) |-> normalized_name(movies[i])]
        query_processed ==
            lower(replace(replace(query_lower, << "," >>, << >>), << "." >>, << >>))
        possible_matches == get_close_matches(query_processed, movie_names, cutoff_tenths)
        NameMatches(m) == possible_matches # << >> /\ normalized_name(m) = possible_matches[1]
    IN  SelectSeq(movies, Mentioned) \o SelectSeq(movies, NameMatches)

get_relevant_movies(query, movies, cutoff_tenths) ==
    LET query_lower == lower(query)
        Mentioned(m) == Contains(normalized_name(m), query_lower)
        matched_movies == SelectSeq(movies, Mentioned)
    IN  IF matched_movies # << >> THEN matched_movies
        ELSE LET movie_names == [i \in 1..Len(movies) |-> normalized_name(movies[i])]
                 query_processed ==
                     lower(replace(replace(query_lower, << "," >>, << >>), << "." >>, << >>))
                 possible_matches ==
                     get_close_matches(query_processed, movie_names, cutoff_tenths)
                 NameMatches(m) ==
                     possible_matches # << >> /\ normalized_name(m) = possible_matches[1]
             IN  SelectSeq(movies, NameMatches)

(***************************************************************************)
(* Names and files of the corpus.                                          *)
(***************************************************************************)
CHUNK_SEP == <<"_","c","h","u","n","k","_">>
JSON_EXT == <<".","j","s","o","n">>

\* chunk files written by split_scripts.py: <movie>_chunk_<i>.txt
C_super0 == <<"s","u","p","e","r","g","i","r","l","_","c","h","u","n","k","_","0",".","t","x","t">>
C_super1 == <<"s","u","p","e","r","g","i","r","l","_","c","h","u","n","k","_","1",".","t","x","t">>
C_swing0 == <<"s","w","i","n","g","e","r","s","_","c","h","u","n","k","_","0",".","t","x","t">>
\* a chunk of a movie that is not in selected_movies
C_up0 == <<"u","p","_","c","h","u","n","k","_","0",".","t","x","t">>
\* a chunk whose embedding file is not valid JSON
C_bad0 == <<"x","_","c","h","u","n","k","_","0",".","t","x","t">>
\* a file of the embeddings directory that is no embedding file
F_readme == <<"r","e","a","d","m","e",".","t","x","t">>

Chunks == {C_super0, C_super1, C_swing0, C_up0}

(***************************************************************************)
(* create_vector_db.py: the offline index build.                           *)
(*                                                                         *)
(* A vector is [of |-> chunk, dim |-> n]: the embedding computed from the  *)
(* text of `chunk`, of dimension n.  The embedding generators write the    *)
(* embedding of chunk file c to <c>.json.                                  *)
(***************************************************************************)
dimension == 768

EmbeddingFiles == {c \o JSON_EXT : c \in Chunks}

\* the embeddings directory: file name -> parsed content (valid is FALSE when
\* json.load raises)
EmbeddingsDir ==
    [f \in EmbeddingFiles \cup {C_bad0 \o JSON_EXT, F_readme} |->
        IF f \in EmbeddingFiles
        THEN [valid |-> TRUE,
              embedding |-> [of |-> SubSeq(f, 1, Len(f) - Len(JSON_EXT)), dim |-> dimension]]
        ELSE [valid |-> FALSE, embedding |-> [of |-> << >>, dim |-> 0]]]

IsInjective(l) == \A i, j \in 1..Len(l) : l[i] = l[j] => i = j

\* what os.listdir may return: the files present, in any order
Listings ==
    {l \in UNION {[1..n -> DOMAIN EmbeddingsDir] : n \in 0..(MaxChunks + 2)} :
        /\ IsInjective(l)
        /\ Cardinality({i \in 1..Len(l) : l[i] \in EmbeddingFiles}) <= MaxChunks}

\* one iteration of the loop of load_embeddings, acc = [vectors, metadata]
load_one_prepends_name(acc, filename) ==
    IF ~endswith(filename, JSON_EXT) THEN acc
    ELSE [vectors  |-> Append(acc.vectors, EmbeddingsDir[filename].embedding),
          metadata |-> << replace(filename, JSON_EXT, << >>) >> \o acc.metadata]

load_one(acc, filename) ==
    IF ~endswith(filename, JSON_EXT) THEN acc
    ELSE [vectors  |-> Append(acc.vectors, EmbeddingsDir[filename].embedding),
          metadata |-> Append(acc.metadata, replace(filename, JSON_EXT, << >>))]

\* json.load or data['embedding'] raises for a listed .json file
LoadRaises(listing) ==
    \E i \in 1..Len(listing) :
        endswith(listing[i], JSON_EXT) /\ ~EmbeddingsDir[listing[i]].valid

RECURSIVE load_embeddings(_, _)
load_embeddings(listing, acc) ==
    IF listing = << >> THEN acc
    ELSE load_embeddings(Tail(listing), load_one(acc, Head(listing)))

\* index.add(vectors) raises: no vector at all (a 1-dimensional array), or a
\* vector of another dimension
AddRaises(vectors) ==
    \/ vectors = << >>
    \/ \E i \in 1..Len(vectors) : vectors[i].dim # dimension

BuildInit ==
    /\ ServiceIdle
    /\ TruncIdle
    /\ GenIdle
    /\ \E l \in Listings : build = [pc |-> "start", listing |-> l]

\* create_vector_db.py __main__, when no step raises
BuildIndex ==
    /\ build.pc = "start"
    /\ ~LoadRaises(build.listing)
    /\ LET loaded == load_embeddings(build.listing, [vectors |-> << >>, metadata |-> << >>])
       IN  /\ ~AddRaises(loaded.vectors)
           /\ index' = [d |-> dimension, vectors |-> loaded.vectors]
           /\ metadata' = loaded.metadata
    /\ build' = [build EXCEPT !.pc = "done"]
    /\ UNCHANGED << selected_movies, movies_data, scripts_chunks, pc, request,
                    relevant_movies, similar_fragments, context, response, calls,
                    similar, outcomes, chat_content, raised, trunc, gen >>

\* create_vector_db.py __main__, when a step raises: nothing is written
BuildCrashes ==
    /\ build.pc = "start"
    /\ \/ LoadRaises(build.listing)
       \/ /\ ~LoadRaises(build.listing)
          /\ AddRaises(load_embeddings(build.listing,
                                       [vectors |-> << >>, metadata |-> << >>]).vectors)
    /\ build' = [build EXCEPT !.pc = "crashed"]
    /\ UNCHANGED << serviceVars, trunc, gen >>

BuildNext == BuildIndex \/ BuildCrashes

SpecBuild == BuildInit /\ [][BuildNext]_vars

(***************************************************************************)
(* C5: after the index build the index and the metadata list have the same *)
(* length and, for every position i, the vector at index position i is the *)
(* embedding read from the file whose name without '.json' is metadata[i], *)
(* which is the embedding computed from the chunk metadata[i] names.       *)
(***************************************************************************)
C5_IndexAligned ==
    build.pc = "done" =>
        /\ Len(index.vectors) = Len(metadata)
        /\ Len(metadata) =
              Cardinality({i \in 1..Len(build.listing) : endswith(build.listing[i], JSON_EXT)})
        /\ \A i \in 1..Len(metadata) :
              /\ \E k \in 1..Len(build.listing) :
                    /\ endswith(build.listing[k], JSON_EXT)
                    /\ replace(build.listing[k], JSON_EXT, << >>) = metadata[i]
                    /\ index.vectors[i] = EmbeddingsDir[build.listing[k]].embedding
              /\ index.vectors[i].of = metadata[i]

\* a build over two embedding files and a file that is skipped
C5_Witness ==
    /\ build.pc = "done"
    /\ Len(metadata) = 2
    /\ Len(build.listing) = 3

(***************************************************************************)
(* backend.py: truncate_context                                            *)
(***************************************************************************)
truncate_context_keeps_one_more(ctx, max_tokens) ==
    IF Len(split(ctx)) > max_tokens
    THEN join(Take(split(ctx), max_tokens + 1))
    ELSE ctx

truncate_context(ctx, max_tokens) ==
    IF Len(split(ctx)) > max_tokens
    THEN join(Take(split(ctx), max_tokens))
    ELSE ctx

(***************************************************************************)
(* truncate_context on drawn inputs.                                       *)
(***************************************************************************)
TruncAlphabet == {"a", "b", " ", "\n"}

TruncContexts == UNION {[1..n -> TruncAlphabet] : n \in 0..MaxLen}

TruncInit ==
    /\ ServiceIdle
    /\ BuildIdle
    /\ GenIdle
    /\ \E c \in TruncContexts, m \in 0..MaxTokens :
          trunc = [pc |-> "input", context |-> c, max_tokens |-> m, result |-> << >>]

ApplyTruncate ==
    /\ trunc.pc = "input"
    /\ trunc' = [trunc EXCEPT !.pc = "done",
                              !.result = truncate_context(trunc.context, trunc.max_tokens)]
    /\ UNCHANGED << serviceVars, build, gen >>

TruncNext == ApplyTruncate

SpecTrunc == TruncInit /\ [][TruncNext]_vars

(***************************************************************************)
(* C3 as stated: the result has at most max_tokens words and is a prefix   *)
(* of the untruncated context (as a string); a context within the budget   *)
(* is returned unchanged.                                                  *)
(***************************************************************************)
C3_AsStated ==
    trunc.pc = "done" =>
        /\ Len(split(trunc.result)) <= trunc.max_tokens
        /\ IsPrefix(trunc.result, trunc.context)
        /\ (Len(split(trunc.context)) <= trunc.max_tokens => trunc.result = trunc.context)

(***************************************************************************)
(* C3 amended: the result has at most max_tokens words; its words are the  *)
(* first words of the context, in order (the whitespace between them is    *)
(* not kept: an over-budget context comes back as its first max_tokens     *)
(* words joined by single spaces); a context within the budget is returned *)
(* unchanged, character for character.                                     *)
(***************************************************************************)
C3_WordPrefix ==
    trunc.pc = "done" =>
        /\ Len(split(trunc.result)) <= trunc.max_tokens
        /\ IsPrefix(split(trunc.result), split(trunc.context))
        /\ (Len(split(trunc.context)) <= trunc.max_tokens => trunc.result = trunc.context)
        /\ (Len(split(trunc.context)) > trunc.max_tokens =>
               /\ Len(split(trunc.result)) = trunc.max_tokens
               /\ trunc.result = join(split(trunc.result)))

\* an over-budget context whose truncation is not a string prefix of it
C3_Witness ==
    /\ trunc.pc = "done"
    /\ trunc.max_tokens > 0
    /\ Len(split(trunc.context)) > trunc.max_tokens
    /\ ~IsPrefix(trunc.result, trunc.context)

(***************************************************************************)
(* backend.py: the online service.                                         *)
(***************************************************************************)
SelectedMovies ==
    << <<"s","u","p","e","r","g","i","r","l">>,
       <<"s","u","r","f","e","r","_","k","i","n","g">>,
       <<"s","u","r","r","o","g","a","t","e","s">>,
       <<"s","u","s","p","e","c","t","_","z","e","r","o">>,
       <<"s","w","e","e","n","e","y","_","t","o","d","d">>,
       <<"s","w","e","e","t","_","h","e","r","e","a","f","t","e","r">>,
       <<"s","w","e","e","t","_","s","m","e","l","l","_","o","f","_","s","u","c","c","e","s","s">>,
       <<"s","w","i","n","g","e","r","s">>,
       <<"s","w","o","r","d","f","i","s","h">>,
       <<"s","y","n","e","c","d","o","c","h","e","_","n","e","w","_","y","o","r","k">> >>

cutoff_tenths == 6          \* get_relevant_movies(..., cutoff=0.6)
top_k == 20                 \* get_similar_fragments(query_embedding, top_k=20, ...)
fragment_limit == 5         \* filtered_similar[:5]
query_max_tokens == 2000    \* truncate_context(context, max_tokens=2000)

\* movies.json, as loaded
MoviesCatalog ==
    << [title |-> "Supergirl", description |-> "d1", image_url |-> "/images/supergirl.jpg"],
       [title |-> "Swingers", description |-> "d2", image_url |-> "/images/swingers.jpg"] >>

\* the texts of the chunk files
ChunkText ==
    [c \in Chunks |->
        CASE c = C_super0 -> <<"a"," "," ","b">>
          [] c = C_super1 -> <<"c","\n","d">>
          [] c = C_swing0 -> <<"e">>
          [] c = C_up0 -> <<" ","f">>]

\* states of the directory SCRIPTS_DIR: every chunk file in place; or one
\* chunk file missing and one that cannot be read
ScriptDirs ==
    { [c \in Chunks |-> [exists |-> TRUE, readable |-> TRUE, text |-> ChunkText[c]]],
      [c \in Chunks |-> [exists |-> c # C_super0, readable |-> c # C_swing0,
                         text |-> ChunkText[c]]] }

\* the requests drawn: Optional[str] is << >> for None and << s >> for a string
Queries ==
    { <<"w","h","o"," ","i","s"," ","s","u","p","e","r","g","i","r","l">>,
      <<"S","w","i","n","g","e","r","s"," ","o","r"," ","s","w","o","r","d","f","i","s","h">>,
      <<"S","w","i","n","g","r","s",".">>,
      <<"h","e","l","l","o">> }

SelectedMovieFields ==
    { << >>,
      << << >> >>,
      << <<"S","u","p","e","r","g","i","r","l">> >>,
      << <<"S","w","e","e","t"," ","H","e","r","e","a","f","t","e","r">> >>,
      << <<"u","p">> >> }

HTTPException(status_code, detail) ==
    [type |-> "HTTPException", status_code |-> status_code, detail |-> detail]

\* an exception that is no HTTPException, with its text
OtherException(text) ==
    [type |-> "Exception", status_code |-> 0, detail |-> << text >>]

\* str(e) of an exception
StrOf(e) ==
    IF e.type = "HTTPException" THEN "<status_code>: <detail>" ELSE e.detail[1]

\* what a step hands back: a value, or the exceptions raised in it, the last
\* of which leaves it
Returns(v) == [raised |-> << >>, value |-> v]
Raises(es) == [raised |-> es, value |-> << >>]

NoOutcomes == [embed |-> "none", generate |-> "none", chat |-> "none"]
NoResponse == [route |-> "none", status_code |-> 0, body |-> << >>]

\* handle_query, Step 1
step1(req) ==
    LET normalized_movie ==
            IF req.selected_movie = << >> THEN << >>
            ELSE replace(lower(req.selected_movie[1]), << " " >>, << "_" >>)
    IN  IF req.selected_movie # << >> /\ req.selected_movie[1] # << >>
           /\ InList(normalized_movie, selected_movies)
        THEN << normalized_movie >>
        ELSE get_relevant_movies(req.query, selected_movies, cutoff_tenths)

EmbedOutcomes ==
    {"ok", "ok_other_dimension", "empty", "timeout", "http_error", "connection_error",
     "bad_json", "not_an_object"}

get_embedding_504_on_timeout(outcome) ==
    CASE outcome = "ok" -> Returns([dim |-> dimension])
      [] outcome = "ok_other_dimension" -> Returns([dim |-> dimension + 1])
      [] outcome = "empty" ->
            Raises(<< HTTPException(500, << "No embeddings returned." >>) >>)
      [] outcome = "timeout" ->
            Raises(<< HTTPException(504, << "Embedding API request timed out." >>) >>)
      [] outcome = "http_error" ->
            Raises(<< HTTPException(500, << "Embedding API HTTP error: ", "<http_err>" >>) >>)
      [] outcome = "connection_error" ->
            Raises(<< HTTPException(500, << "Embedding API request failed: ", "<e>" >>) >>)
      [] outcome = "bad_json" ->
            Raises(<< HTTPException(500, << "Invalid JSON response from Embedding API." >>) >>)
      [] outcome = "not_an_object" ->
            Raises(<< OtherException("'list' object has no attribute 'get'") >>)

\* get_embedding, by what the embedding endpoint does
get_embedding(outcome) ==
    CASE outcome = "ok" -> Returns([dim |-> dimension])
      [] outcome = "ok_other_dimension" -> Returns([dim |-> dimension + 1])
      [] outcome = "empty" ->
            Raises(<< HTTPException(500, << "No embeddings returned." >>) >>)
      [] outcome = "timeout" ->
            Raises(<< HTTPException(500, << "Embedding API request timed out." >>) >>)
      [] outcome = "http_error" ->
            Raises(<< HTTPException(500, << "Embedding API HTTP error: ", "<http_err>" >>) >>)
      [] outcome = "connection_error" ->
            Raises(<< HTTPException(500, << "Embedding API request failed: ", "<e>" >>) >>)
      [] outcome = "bad_json" ->
            Raises(<< HTTPException(500, << "Invalid JSON response from Embedding API." >>) >>)
      [] outcome = "not_an_object" ->
            Raises(<< OtherException("'list' object has no attribute 'get'") >>)

\* I[0] of index.search(x, k): the positions of the min(k, ntotal) nearest
\* vectors, nearest first, then -1 up to length k.  The query vector comes
\* from the remote endpoint, so every order of the stored vectors can occur.
SearchResults(k) ==
    LET n == Len(index.vectors)
        m == IF k < n THEN k ELSE n
    IN  {[i \in 1..k |-> IF i <= m THEN hits[i] ELSE -1] :
            hits \in {h \in [1..m -> 0..(n - 1)] : IsInjective(h)}}

\* list[i] with Python's indexing: i counts from 0, a negative i from the end
InRange(list, i) == -Len(list) <= i /\ i < Len(list)
PyIndex(list, i) == IF i >= 0 THEN list[i + 1] ELSE list[Len(list) + i + 1]

movie_of(chunk) == SplitFirst(chunk, CHUNK_SEP)

\* the first chunk of each selected movie among the search hits
one_chunk_per_movie(hits) ==
    LET HasChunk(movie) == \E i \in 1..Len(hits) : movie_of(hits[i]) = movie
        FirstOf(movie) ==
            hits[Min({i \in 1..Len(hits) : movie_of(hits[i]) = movie})]
        movies == SelectSeq(selected_movies, HasChunk)
    IN  [i \in 1..Len(movies) |-> FirstOf(movies[i])]

get_similar_fragments_unfiltered(embedding, I, relevant) ==
    LET hits == [i \in 1..Len(I) |-> PyIndex(metadata, I[i])]
    IN  IF embedding.dim # index.d
        THEN [raised |-> << HTTPException(500, << "FAISS search failed: ", "<assertion>" >>) >>,
              value |-> << >>, similar |-> << >>]
        ELSE [raised |-> << >>, value |-> Take(hits, fragment_limit), similar |-> hits]

Reverse(list) == [i \in 1..Len(list) |-> list[Len(list) - i + 1]]

get_similar_fragments_farthest_first(embedding, I, relevant) ==
    LET hits == [i \in 1..Len(I) |-> PyIndex(metadata, I[i])]
        FromRelevant(chunk) == InList(movie_of(chunk), relevant)
        filtered_similar == SelectSeq(hits, FromRelevant)
    IN  IF embedding.dim # index.d \/ (relevant # << >> /\ filtered_similar = << >>)
        THEN [raised |-> << HTTPException(500, << "FAISS search failed: ", "<e>" >>) >>,
              value |-> << >>, similar |-> << >>]
        ELSE IF relevant # << >>
        THEN [raised |-> << >>, value |-> Reverse(Take(filtered_similar, fragment_limit)),
              similar |-> hits]
        ELSE [raised |-> << >>, value |-> Reverse(one_chunk_per_movie(hits)), similar |-> hits]

\* get_similar_fragments, by what index.search returns
get_similar_fragments(embedding, I, relevant) ==
    IF embedding.dim # index.d \/ \E i \in 1..Len(I) : ~InRange(metadata, I[i])
    THEN \* index.search or metadata[i] raises; line 234 catches it
         [raised |-> << HTTPException(500, << "FAISS search failed: ", "<e>" >>) >>,
          value |-> << >>, similar |-> << >>]
    ELSE LET hits == [i \in 1..Len(I) |-> PyIndex(metadata, I[i])]
             FromRelevant(chunk) == InList(movie_of(chunk), relevant)
             filtered_similar == SelectSeq(hits, FromRelevant)
             not_found == HTTPException(404, << "No relevant chunks found for the query." >>)
         IN  IF relevant # << >>
             THEN IF filtered_similar = << >>
                  THEN \* raised at line 218 inside the try block, caught at
                       \* line 234 (HTTPException is an Exception), raised anew
                       [raised |-> << not_found,
                                      HTTPException(500, << "FAISS search failed: ",
                                                            StrOf(not_found) >>) >>,
                        value |-> << >>, similar |-> hits]
                  ELSE [raised |-> << >>, value |-> Take(filtered_similar, fragment_limit),
                        similar |-> hits]
             ELSE [raised |-> << >>, value |-> one_chunk_per_movie(hits), similar |-> hits]

\* prepare_context: the texts of the fragments whose file exists and can be
\* read, each followed by a newline
RECURSIVE prepare_context(_)
prepare_context(fragments) ==
    IF fragments = << >> THEN << >>
    ELSE LET f == Head(fragments)
             here == IF f \in DOMAIN scripts_chunks /\ scripts_chunks[f].exists
                        /\ scripts_chunks[f].readable
                     THEN scripts_chunks[f].text \o << "\n" >>
                     ELSE << >>
         IN  here \o prepare_context(Tail(fragments))

GenOutcomes ==
    {"ok", "empty", "http_404", "http_error", "timeout", "connection_error", "bad_json",
     "not_an_object"}

ChatOutcomes ==
    {"ok", "empty", "http_error", "timeout", "connection_error", "bad_json",
     "not_an_object"}

GenerateAnswer == "response of /api/generate"
ChatAnswer == "message.content of /api/chat"

\* call_llm_api up to the end of the generation call: an answer, an
\* exception, or the decision to call the chat endpoint
call_generate_falls_back_on_any_status(outcome) ==
    CASE outcome = "ok" -> Returns(GenerateAnswer) @@ [fallback |-> FALSE]
      [] outcome \in {"http_404", "http_error"} -> Returns("") @@ [fallback |-> TRUE]
      [] OTHER ->
            Raises(<< HTTPException(500, << "Completion API request failed." >>) >>)
                @@ [fallback |-> FALSE]

call_generate(outcome) ==
    CASE outcome = "ok" -> Returns(GenerateAnswer) @@ [fallback |-> FALSE]
      [] outcome = "empty" ->
            Raises(<< HTTPException(500, << "Completion API did not return a response." >>) >>)
                @@ [fallback |-> FALSE]
      [] outcome = "http_404" -> Returns("") @@ [fallback |-> TRUE]
      [] outcome = "http_error" ->
            Raises(<< HTTPException(500, << "Completion API HTTP error: ", "<http_err>" >>) >>)
                @@ [fallback |-> FALSE]
      [] outcome \in {"timeout", "connection_error"} ->
            Raises(<< HTTPException(500, << "Completion API request failed." >>) >>)
                @@ [fallback |-> FALSE]
      [] outcome = "bad_json" ->
            \* requests' JSONDecodeError is a RequestException; json's is caught
            \* by the last clause: the status is 500 either way
            Raises(<< HTTPException(500, << "Invalid JSON response from Completion API." >>) >>)
                @@ [fallback |-> FALSE]
      [] outcome = "not_an_object" ->
            Raises(<< OtherException("'list' object has no attribute 'get'") >>)
                @@ [fallback |-> FALSE]

\* call_llm_api, the fallback: by what the chat endpoint does
call_chat(outcome) ==
    CASE outcome = "ok" -> Returns(ChatAnswer)
      [] outcome = "empty" ->
            Raises(<< HTTPException(500, << "Chat API did not return a response." >>) >>)
      [] outcome \in {"http_error", "timeout", "connection_error"} ->
            Raises(<< HTTPException(500, << "Failed to call Chat API as fallback." >>) >>)
      [] outcome = "bad_json" ->
            Raises(<< HTTPException(500, << "Invalid JSON response from Chat API." >>) >>)
      [] outcome = "not_an_object" ->
            Raises(<< OtherException("'list' object has no attribute 'get'") >>)

\* handle_query, lines 392-397: the response for the exception e
error_response(e) ==
    IF e.type = "HTTPException"
    THEN [route |-> "/query", status_code |-> e.status_code, body |-> [detail |-> e.detail]]
    ELSE [route |-> "/query", status_code |-> 500, body |-> [detail |-> << StrOf(e) >>]]

Last(list) == list[Len(list)]

ServiceInit ==
    /\ BuildIdle
    /\ TruncIdle
    /\ GenIdle
    /\ selected_movies = SelectedMovies
    /\ movies_data = MoviesCatalog
    /\ scripts_chunks \in ScriptDirs
    \* vector_db.index and metadata.json as create_vector_db.py wrote them
    /\ \E l \in Listings :
          /\ ~LoadRaises(l)
          /\ LET loaded == load_embeddings(l, [vectors |-> << >>, metadata |-> << >>])
             IN  /\ ~AddRaises(loaded.vectors)
                 /\ index = [d |-> dimension, vectors |-> loaded.vectors]
                 /\ metadata = loaded.metadata
    /\ pc = "idle"
    /\ request = [query |-> << >>, selected_movie |-> << >>]
    /\ relevant_movies = << >>
    /\ similar = << >>
    /\ similar_fragments = << >>
    /\ context = << >>
    /\ response = NoResponse
    /\ calls = [embed |-> 0, generate |-> 0, chat |-> 0]
    /\ outcomes = NoOutcomes
    /\ chat_content = ""
    /\ raised = << >>

loaded_data == << selected_movies, index, metadata, movies_data, scripts_chunks >>

Ready == pc = "idle"

GetStatus_from_metadata ==
    /\ Ready
    /\ pc' = "responded"
    /\ response' = [route |-> "/status", status_code |-> 200,
                    body |-> [status |-> "running",
                              available_movies |->
                                  [i \in 1..Len(metadata) |-> movie_of(metadata[i])]]]
    /\ UNCHANGED << loaded_data, request, relevant_movies, similar, similar_fragments,
                    context, calls, outcomes, chat_content, raised, build, trunc, gen >>

\* GET /status (a request that is no query leaves the record of the last
\* query alone)
GetStatus ==
    /\ Ready
    /\ pc' = "responded"
    /\ response' = [route |-> "/status", status_code |-> 200,
                    body |-> [status |-> "running", available_movies |-> selected_movies]]
    /\ UNCHANGED << loaded_data, request, relevant_movies, similar, similar_fragments,
                    context, calls, outcomes, chat_content, raised, build, trunc, gen >>

GetMovies_pops ==
    /\ Ready
    /\ pc' = "responded"
    /\ response' = [route |-> "/movies", status_code |-> 200, body |-> movies_data]
    /\ movies_data' = Tail(movies_data)
    /\ UNCHANGED << selected_movies, index, metadata, scripts_chunks, request,
                    relevant_movies, similar, similar_fragments,
                    context, calls, outcomes, chat_content, raised, build, trunc, gen >>

\* GET /movies
GetMovies ==
    /\ Ready
    /\ pc' = "responded"
    /\ response' = [route |-> "/movies", status_code |-> 200, body |-> movies_data]
    /\ UNCHANGED << loaded_data, request, relevant_movies, similar, similar_fragments,
                    context, calls, outcomes, chat_content, raised, build, trunc, gen >>

\* POST /query: Step 1, then the request to the embedding endpoint is sent
Query(q, sm) ==
    /\ Ready
    /\ request' = [query |-> q, selected_movie |-> sm]
    /\ relevant_movies' = step1(request')
    /\ pc' = "embedding"
    /\ calls' = [embed |-> 1, generate |-> 0, chat |-> 0]
    /\ UNCHANGED << loaded_data, similar, similar_fragments, context, response, outcomes,
                    chat_content, raised, build, trunc, gen >>

\* the request ends with the exceptions es raised (the last one reaches the
\* handler of lines 392-397)
Fail(es) ==
    /\ raised' = es
    /\ response' = error_response(Last(es))
    /\ pc' = "responded"

EmbeddingReturns_generates_without_context(outcome, I) ==
    /\ pc = "embedding"
    /\ outcomes' = [outcomes EXCEPT !.embed = outcome]
    /\ LET e == get_embedding(outcome)
       IN  IF e.raised # << >>
           THEN /\ Fail(e.raised)
                /\ UNCHANGED << similar, similar_fragments, context, calls >>
           ELSE LET s == get_similar_fragments(e.value, I, relevant_movies)
                IN  /\ similar' = s.similar
                    /\ IF s.raised # << >>
                       THEN /\ Fail(s.raised)
                            /\ UNCHANGED << similar_fragments, context, calls >>
                       ELSE /\ similar_fragments' = s.value
                            /\ context' = truncate_context(prepare_context(s.value),
                                                           query_max_tokens)
                            /\ calls' = [calls EXCEPT !.generate = @ + 1]
                            /\ pc' = "generating"
                            /\ UNCHANGED << raised, response >>
    /\ UNCHANGED << loaded_data, request, relevant_movies, chat_content, build, trunc, gen >>

\* the embedding endpoint answers: Steps 2 to 5, then the request to the
\* generation endpoint is sent
EmbeddingReturns(outcome, I) ==
    /\ pc = "embedding"
    /\ outcomes' = [outcomes EXCEPT !.embed = outcome]
    /\ LET e == get_embedding(outcome)
       IN  IF e.raised # << >>
           THEN /\ Fail(e.raised)
                /\ UNCHANGED << similar, similar_fragments, context, calls >>
           ELSE LET s == get_similar_fragments(e.value, I, relevant_movies)
                IN  /\ similar' = s.similar
                    /\ IF s.raised # << >>
                       THEN /\ Fail(s.raised)
                            /\ UNCHANGED << similar_fragments, context, calls >>
                       ELSE LET ctx == prepare_context(s.value)
                            IN  /\ similar_fragments' = s.value
                                /\ IF ctx = << >>
                                   THEN /\ Fail(<< HTTPException(500,
                                               << "No context available for the query." >>) >>)
                                        /\ UNCHANGED << context, calls >>
                                   ELSE /\ context' = truncate_context(ctx, query_max_tokens)
                                        /\ calls' = [calls EXCEPT !.generate = @ + 1]
                                        /\ pc' = "generating"
                                        /\ UNCHANGED << raised, response >>
    /\ UNCHANGED << loaded_data, request, relevant_movies, chat_content, build, trunc, gen >>

GenerateReturns_retries(outcome) ==
    /\ pc = "generating"
    /\ outcomes' = [outcomes EXCEPT !.generate = outcome]
    /\ LET g == call_generate(outcome)
       IN  IF g.fallback
           THEN /\ calls' = [calls EXCEPT !.chat = @ + 1]
                /\ pc' = "chatting"
                /\ UNCHANGED << raised, response >>
           ELSE IF g.raised # << >>
           THEN /\ calls' = [calls EXCEPT !.generate = @ + 1]
                /\ pc' = IF calls.generate < 3 THEN "generating" ELSE "responded"
                /\ raised' = g.raised
                /\ response' = error_response(Last(g.raised))
           ELSE /\ response' = [route |-> "/query", status_code |-> 200,
                                body |-> [answer |-> g.value]]
                /\ pc' = "responded"
                /\ UNCHANGED << raised, calls >>
    /\ UNCHANGED << loaded_data, request, relevant_movies, similar, similar_fragments,
                    context, chat_content, build, trunc, gen >>

\* the generation endpoint answers: the answer is returned, the request
\* fails, or (status 404) the request to the chat endpoint is sent
GenerateReturns(outcome) ==
    /\ pc = "generating"
    /\ outcomes' = [outcomes EXCEPT !.generate = outcome]
    /\ LET g == call_generate(outcome)
       IN  IF g.fallback
           THEN /\ calls' = [calls EXCEPT !.chat = @ + 1]
                /\ pc' = "chatting"
                /\ UNCHANGED << raised, response >>
           ELSE IF g.raised # << >>
           THEN /\ Fail(g.raised)
                /\ UNCHANGED calls
           ELSE /\ response' = [route |-> "/query", status_code |-> 200,
                                body |-> [answer |-> g.value]]
                /\ pc' = "responded"
                /\ UNCHANGED << raised, calls >>
    /\ UNCHANGED << loaded_data, request, relevant_movies, similar, similar_fragments,
                    context, chat_content, build, trunc, gen >>

\* the chat endpoint answers
ChatReturns(outcome) ==
    /\ pc = "chatting"
    /\ outcomes' = [outcomes EXCEPT !.chat = outcome]
    /\ chat_content' = IF outcome = "ok" THEN ChatAnswer ELSE ""
    /\ LET c == call_chat(outcome)
       IN  IF c.raised # << >>
           THEN Fail(c.raised)
           ELSE /\ response' = [route |-> "/query", status_code |-> 200,
                                body |-> [answer |-> c.value]]
                /\ pc' = "responded"
                /\ UNCHANGED raised
    /\ UNCHANGED << loaded_data, request, relevant_movies, similar, similar_fragments,
                    context, calls, build, trunc, gen >>

\* the response has been sent; the handler's frame is gone
Deliver ==
    /\ pc = "responded"
    /\ pc' = "idle"
    /\ request' = [query |-> << >>, selected_movie |-> << >>]
    /\ relevant_movies' = << >>
    /\ similar' = << >>
    /\ similar_fragments' = << >>
    /\ context' = << >>
    /\ response' = NoResponse
    /\ calls' = [embed |-> 0, generate |-> 0, chat |-> 0]
    /\ outcomes' = NoOutcomes
    /\ chat_content' = ""
    /\ raised' = << >>
    /\ UNCHANGED << loaded_data, build, trunc, gen >>

Next ==
    \/ GetStatus
    \/ GetMovies
    \/ \E q \in Queries, sm \in SelectedMovieFields : Query(q, sm)
    \/ \E outcome \in EmbedOutcomes, I \in SearchResults(top_k) : EmbeddingReturns(outcome, I)
    \/ \E outcome \in GenOutcomes : GenerateReturns(outcome)
    \/ \E outcome \in ChatOutcomes : ChatReturns(outcome)
    \/ Deliver

Spec == ServiceInit /\ [][Next]_vars

(***************************************************************************)
(* Properties of the online service.                                       *)
(***************************************************************************)
Range(list) == {list[i] : i \in 1..Len(list)}

QueryAnswered == pc = "responded" /\ response.route = "/query"

\* the selected movies whose normalized title is a substring of the
\* lower-cased query
MentionedIn(query) ==
    {m \in Range(SelectedMovies) : Contains(normalized_name(m), lower(query))}

\* the selected_movie field names a selected movie
ValidSelection(req) ==
    /\ req.selected_movie # << >>
    /\ req.selected_movie[1] # << >>
    /\ InList(replace(lower(req.selected_movie[1]), << " " >>, << "_" >>), SelectedMovies)

(***************************************************************************)
(* C1: when the relevant-movie set of a /query request is non-empty and    *)
(* none of the top-k chunks of the vector search belongs to a relevant     *)
(* movie, the client receives status 404 and the generation endpoint is    *)
(* not called for that request.                                            *)
(***************************************************************************)
C1_NotFoundIs404 ==
    ( /\ QueryAnswered
      /\ relevant_movies # << >>
      /\ similar # << >>
      /\ \A i \in 1..Len(similar) : ~InList(movie_of(similar[i]), relevant_movies) )
    => /\ response.status_code = 404
       /\ calls.generate = 0

(***************************************************************************)
(* C2 as stated: when the query mentions a known movie title, every        *)
(* fragment used to build the context belongs to a mentioned movie,        *)
(* whatever the selected_movie field holds.                                *)
(***************************************************************************)
C2_AsStated ==
    MentionedIn(request.query) # {} =>
        \A i \in 1..Len(similar_fragments) :
            movie_of(similar_fragments[i]) \in MentionedIn(request.query)

(***************************************************************************)
(* C2 amended: when the query mentions a known movie title and the         *)
(* selected_movie field is absent, empty or names no selected movie, every *)
(* fragment used to build the context belongs to a movie mentioned in the  *)
(* query; when selected_movie names a selected movie, every fragment       *)
(* belongs to that selected movie instead.                                 *)
(***************************************************************************)
C2_SelectionFirst ==
    MentionedIn(request.query) # {} =>
        \A i \in 1..Len(similar_fragments) :
            IF ValidSelection(request)
            THEN movie_of(similar_fragments[i]) =
                     replace(lower(request.selected_movie[1]), << " " >>, << "_" >>)
            ELSE movie_of(similar_fragments[i]) \in MentionedIn(request.query)

\* a query naming a movie, no valid selection, fragments selected while the
\* search also returned chunks of other movies
C2_Witness ==
    /\ MentionedIn(request.query) # {}
    /\ ~ValidSelection(request)
    /\ similar_fragments # << >>
    /\ \E i \in 1..Len(similar) : movie_of(similar[i]) \notin MentionedIn(request.query)

(***************************************************************************)
(* C4 as stated: the available_movies list of GET /status equals the set   *)
(* of distinct movie identifiers occurring in the loaded metadata.         *)
(***************************************************************************)
C4_AsStated ==
    response.route = "/status" =>
        Range(response.body.available_movies) = {movie_of(c) : c \in Range(metadata)}

(***************************************************************************)
(* C4 amended: the available_movies list of GET /status is the fixed       *)
(* selected_movies list, in its order, whatever the loaded metadata hold.  *)
(***************************************************************************)
C4_FixedList ==
    response.route = "/status" =>
        /\ response.status_code = 200
        /\ response.body.available_movies = SelectedMovies

\* a status response while the metadata hold a chunk of an unselected movie
C4_Witness ==
    /\ response.route = "/status"
    /\ \E c \in Range(metadata) : movie_of(c) \notin Range(response.body.available_movies)

RemoteFailures ==
    {"empty", "timeout", "http_error", "http_404", "connection_error", "bad_json"}

(***************************************************************************)
(* C6 as stated: a /query request during which a remote call timed out is  *)
(* answered with status 504; one during which a remote call failed         *)
(* otherwise (HTTP error status, connection failure, malformed JSON, empty *)
(* result) is answered with status 500.                                    *)
(***************************************************************************)
C6_AsStated ==
    QueryAnswered =>
        LET last == IF outcomes.chat # "none" THEN outcomes.chat
                    ELSE IF outcomes.generate # "none" THEN outcomes.generate
                    ELSE outcomes.embed
        IN  /\ last = "timeout" => response.status_code = 504
            /\ last \in RemoteFailures \ {"timeout"} => response.status_code = 500

(***************************************************************************)
(* C6 amended: a /query request whose last remote call failed - by a       *)
(* timeout as by an HTTP error status, a connection failure, malformed     *)
(* JSON or an empty result - is answered with status 500; no request is    *)
(* answered with 504.  (A 404 of the generation endpoint is not the last   *)
(* call: the chat endpoint is called next.)                                *)
(***************************************************************************)
C6_FailuresAre500 ==
    /\ response.status_code # 504
    /\ QueryAnswered =>
          LET last == IF outcomes.chat # "none" THEN outcomes.chat
                      ELSE IF outcomes.generate # "none" THEN outcomes.generate
                      ELSE outcomes.embed
          IN  /\ last # "http_404"
              /\ last \in RemoteFailures => response.status_code = 500

\* a request answered after its last remote call, the chat fallback, timed out
C6_Witness ==
    /\ QueryAnswered
    /\ outcomes.embed = "ok"
    /\ outcomes.generate = "http_404"
    /\ outcomes.chat = "timeout"

(***************************************************************************)
(* C7: the chat endpoint is called if and only if the generation endpoint  *)
(* answered with status 404, and an answer returned after the fallback is  *)
(* the message content of the chat response.                               *)
(***************************************************************************)
C7_FallbackOn404Only ==
    /\ calls.chat > 0 <=> outcomes.generate = "http_404"
    /\ (QueryAnswered /\ calls.chat > 0 /\ response.status_code = 200) =>
          /\ outcomes.chat = "ok"
          /\ response.body.answer = chat_content
          /\ chat_content # ""

\* a request answered through the fallback
C7_Witness ==
    /\ QueryAnswered
    /\ outcomes.generate = "http_404"
    /\ calls.chat = 1
    /\ response.status_code = 200

(***************************************************************************)
(* C8: each of the embedding, generation and chat endpoints is called at   *)
(* most once per /query request, whatever the outcomes of the calls.       *)
(***************************************************************************)
C8_NoRetry ==
    /\ calls.embed <= 1
    /\ calls.generate <= 1
    /\ calls.chat <= 1
    /\ outcomes.embed # "none" => calls.embed = 1
    /\ outcomes.generate # "none" => calls.generate = 1
    /\ outcomes.chat # "none" => calls.chat = 1

\* a request answered after its generation call failed
C8_Witness ==
    /\ QueryAnswered
    /\ outcomes.generate = "timeout"
    /\ response.status_code = 500
    /\ calls = [embed |-> 1, generate |-> 1, chat |-> 0]

(***************************************************************************)
(* C9: no step of handling /status, /movies or /query changes the loaded   *)
(* index, the metadata list, the movie catalog, the selected_movies list   *)
(* or a file of the chunk directory.                                       *)
(***************************************************************************)
C9_LoadedDataUnchanged == [][loaded_data' = loaded_data]_vars

\* a query has been answered and the data are as loaded
C9_Witness ==
    /\ QueryAnswered
    /\ response.status_code = 200
    /\ movies_data = MoviesCatalog
    /\ selected_movies = SelectedMovies
    /\ Len(metadata) = Len(index.vectors)

(***************************************************************************)
(* C10: an exception that reaches the handler of handle_query and is no    *)
(* HTTPException is answered with status 500 and its text as the detail;   *)
(* an HTTPException raised by a pipeline step reaches the client with the  *)
(* status code it was raised with.                                         *)
(***************************************************************************)
C10_StatusAsRaised ==
    QueryAnswered =>
        \A i \in 1..Len(raised) :
            IF raised[i].type = "HTTPException"
            THEN response.status_code = raised[i].status_code
            ELSE /\ response.status_code = 500
                 /\ response.body.detail = raised[i].detail

\* list is a subsequence of of: its entries occur in `of` in the same order
RECURSIVE IsSubsequence(_, _)
IsSubsequence(list, of) ==
    IF list = << >> THEN TRUE
    ELSE IF of = << >> THEN FALSE
    ELSE IF Head(list) = Head(of) THEN IsSubsequence(Tail(list), Tail(of))
    ELSE IsSubsequence(list, Tail(of))

\* position of x in list
PositionIn(x, list) == Min({i \in 1..Len(list) : list[i] = x})

\* the texts of the readable fragments, one after the other
ContextOf(fragments) ==
    LET Readable(f) ==
            f \in DOMAIN scripts_chunks /\ scripts_chunks[f].exists /\ scripts_chunks[f].readable
        kept == SelectSeq(fragments, Readable)
        RECURSIVE Cat(_)
        Cat(l) == IF l = << >> THEN << >>
                  ELSE scripts_chunks[Head(l)].text \o << "\n" >> \o Cat(Tail(l))
    IN  Cat(kept)

(***************************************************************************)
(* C11 as stated: the fragments whose texts are concatenated into the      *)
(* context appear in the order in which the vector search returned them,   *)
(* with a movie filter and without one.                                    *)
(***************************************************************************)
C11_AsStated ==
    pc \in {"generating", "chatting", "responded"} =>
        IsSubsequence(similar_fragments, similar)

(***************************************************************************)
(* C11 amended: with a movie filter the fragments concatenated into the    *)
(* context appear in the order in which the vector search returned them;   *)
(* with no relevant movie the fragments are the first hit of each selected *)
(* movie, in the order of the selected_movies list, not in search order.   *)
(* In both cases the context is the fragments' texts in list order.        *)
(***************************************************************************)
C11_OrderOfFragments ==
    pc \in {"generating", "chatting", "responded"} =>
        /\ relevant_movies # << >> => IsSubsequence(similar_fragments, similar)
        /\ relevant_movies = << >> =>
              /\ \A i \in 1..Len(similar_fragments) :
                    /\ InList(movie_of(similar_fragments[i]), SelectedMovies)
                    /\ similar_fragments[i] =
                          similar[Min({k \in 1..Len(similar) :
                                          movie_of(similar[k]) = movie_of(similar_fragments[i])})]
              /\ \A i, j \in 1..Len(similar_fragments) :
                    i < j => PositionIn(movie_of(similar_fragments[i]), SelectedMovies)
                             < PositionIn(movie_of(similar_fragments[j]), SelectedMovies)
        /\ pc = "generating" => context = ContextOf(similar_fragments)

\* no relevant movie, and the two fragments are not in search order
C11_Witness ==
    /\ pc = "generating"
    /\ relevant_movies = << >>
    /\ Len(similar_fragments) = 2
    /\ ~IsSubsequence(similar_fragments, similar)

\* the query as the fuzzy stage compares it: lower case, ',' and '.' removed
QueryProcessed(query) == lower(replace(replace(lower(query), << "," >>, << >>), << "." >>, << >>))

\* SequenceMatcher ratio 2*M/T of a movie's normalized name and the query
Matches(m, query) == ratio_matches(normalized_name(m), QueryProcessed(query))
Lengths(m, query) == Len(normalized_name(m)) + Len(QueryProcessed(query))
AtCutoff(m, query) == 20 * Matches(m, query) >= cutoff_tenths * Lengths(m, query)

(***************************************************************************)
(* C14: get_relevant_movies returns a subset of the selected movies in two *)
(* exclusive stages: every movie whose normalized name is a substring of   *)
(* the lower-cased query, each once; only when there is none, the single   *)
(* closest name at or above the similarity cutoff; when neither stage      *)
(* matches the result is empty and the search results are not filtered by  *)
(* movie: every selected movie with a search hit has a fragment.           *)
(***************************************************************************)
C14_TwoStages ==
    /\ (pc = "embedding" /\ ~ValidSelection(request)) =>
          LET q == request.query
              exact == MentionedIn(q)
          IN  /\ Range(relevant_movies) \subseteq Range(SelectedMovies)
              /\ exact # {} =>
                    /\ Range(relevant_movies) = exact
                    /\ Len(relevant_movies) = Cardinality(exact)
              /\ exact = {} =>
                    /\ Len(relevant_movies) <= 1
                    /\ relevant_movies = << >> <=>
                          \A m \in Range(SelectedMovies) : ~AtCutoff(m, q)
                    /\ relevant_movies # << >> =>
                          /\ AtCutoff(relevant_movies[1], q)
                          /\ \A m \in Range(SelectedMovies) :
                                Matches(m, q) * Lengths(relevant_movies[1], q)
                                <= Matches(relevant_movies[1], q) * Lengths(m, q)
    /\ (pc \in {"generating", "chatting", "responded"} /\ relevant_movies = << >>) =>
          \A k \in 1..Len(similar) :
              InList(movie_of(similar[k]), SelectedMovies) =>
                  \E i \in 1..Len(similar_fragments) :
                      movie_of(similar_fragments[i]) = movie_of(similar[k])

\* no name is a substring of the query and the fuzzy stage found one movie
C14_Witness ==
    /\ pc = "embedding"
    /\ ~ValidSelection(request)
    /\ MentionedIn(request.query) = {}
    /\ Len(relevant_movies) = 1

\* the search of Step 3 raised
SearchFailed ==
    \E i \in 1..Len(raised) :
        raised[i].type = "HTTPException" /\ raised[i].detail[1] = "FAISS search failed: "

\* Step 2 returned a vector
EmbeddingReturned == outcomes.embed # "none" /\ get_embedding(outcomes.embed).raised = << >>

(***************************************************************************)
(* C16: within one /query request the steps run in the order embed,        *)
(* search, assemble context, truncate, generate, and a failing step ends   *)
(* the request: the generation endpoint has been called only if the        *)
(* embedding call returned a vector, the search selected at least one      *)
(* fragment and the assembled context is non-empty, and it is called with  *)
(* the truncated context; when the assembled context is empty the request  *)
(* is answered with status 500 and the generation endpoint is never       *)
(* called.                                                                 *)
(***************************************************************************)
C16_StepsInOrder ==
    /\ calls.generate > 0 =>
          /\ calls.embed = 1
          /\ EmbeddingReturned
          /\ ~SearchFailed
          /\ similar # << >>
          /\ similar_fragments # << >>
          /\ ContextOf(similar_fragments) # << >>
          /\ context = truncate_context(ContextOf(similar_fragments), query_max_tokens)
    /\ calls.chat > 0 => calls.generate > 0
    /\ outcomes.generate # "none" => calls.generate > 0
    /\ (calls.embed > 0 /\ ~EmbeddingReturned) =>
          similar = << >> /\ similar_fragments = << >> /\ context = << >>
    /\ (QueryAnswered /\ (~EmbeddingReturned \/ SearchFailed)) =>
          /\ calls.generate = 0
          /\ response.status_code # 200
    /\ (QueryAnswered /\ EmbeddingReturned /\ ~SearchFailed
        /\ ContextOf(similar_fragments) = << >>) =>
          /\ response.status_code = 500
          /\ calls.generate = 0
          /\ outcomes.generate = "none"

\* fragments were selected, none of their files could be read, and the
\* request has been answered
C16_Witness ==
    /\ QueryAnswered
    /\ EmbeddingReturned
    /\ ~SearchFailed
    /\ similar_fragments # << >>
    /\ ContextOf(similar_fragments) = << >>
    /\ response.status_code = 500

(***************************************************************************)
(* generate_embeddings_local.py and generate_embeddings_online_request.py: *)
(* the offline embedding generators.                                       *)
(*                                                                         *)
(* gen.script is the generator that runs.  A job is one call of            *)
(* process_file (local: a future of the worker pool) or one iteration of   *)
(* the loop of process_chunks that reaches generate_embedding (online      *)
(* request).  The embeddings directory maps an output file to "none" (no   *)
(* such file), "old" (there before the run), "written" or "partial" (the   *)
(* file was opened for writing and json.dump raised).                      *)
(***************************************************************************)
MAX_RETRIES == 3
MAX_WORKERS == 10

TXT_EXT == <<".","t","x","t">>
CHUNK_WORD == <<"c","h","u","n","k">>

\* the scripts directory of a run
ScriptsDirFiles == {C_super0, C_swing0, F_readme}

\* "chunk" in filename and filename.endswith('.txt')
IsChunkFile(filename) == Contains(CHUNK_WORD, filename) /\ endswith(filename, TXT_EXT)

\* os.path.join(embeddings_dir, f"{filename}.json")
output_file(filename) == filename \o JSON_EXT

OutputFiles == {output_file(f) : f \in {x \in ScriptsDirFiles : IsChunkFile(x)}}

\* os.listdir(chunks_dir): every file once, in any order
ScriptsListings ==
    {l \in [1..Cardinality(ScriptsDirFiles) -> ScriptsDirFiles] : IsInjective(l)}

\* how the embedding endpoint answers one request
Responses ==
    {"embedding", "no_embedding", "rate_limited", "error_status", "timeout",
     "connection_error", "bad_json", "not_an_object"}

\* how the file system answers open(output_file, 'w') and json.dump
DiskOutcomes == {"ok", "open_fails", "write_fails"}

\* one iteration of the retry loop of generate_embedding: what the
\* iteration does with the response
local_attempt_keeps_asking(reply) ==
    CASE reply = "not_an_object" -> "raise"
      [] OTHER -> "retry"

local_attempt(reply) ==
    CASE reply = "embedding" -> "return_embedding"
      [] reply = "not_an_object" -> "raise"      \* response_json.get: AttributeError
      [] OTHER -> "retry"

online_request_attempt(reply) ==
    CASE reply = "embedding" -> "return_embedding"
      [] reply = "no_embedding" -> "return_empty"   \* .get("embeddings", []) is []
      [] reply = "not_an_object" -> "raise"
      [] OTHER -> "retry"

NewJob(filename) ==
    [filename |-> filename, pc |-> "submitted", attempt |-> 0, requests |-> 0,
     last |-> "none", result |-> "pending", collected |-> FALSE]

Exists(file) == gen.embeddings[file] # "none"

Log(filename, kind) == gen.log \cup {<< filename, kind >>}

GenInit ==
    /\ ServiceIdle
    /\ BuildIdle
    /\ TruncIdle
    /\ \E script \in {"local", "online_request"}, l \in ScriptsListings,
          unreadable \in SUBSET {f \in ScriptsDirFiles : IsChunkFile(f)},
          old \in SUBSET OutputFiles :
          gen = [pc |-> "start", script |-> script, listing |-> l,
                 unreadable |-> unreadable,
                 embeddings |-> [o \in OutputFiles |-> IF o \in old THEN "old" ELSE "none"],
                 jobs |-> << >>, pos |-> 1, log |-> {}, writes |-> {}]

Submit_twice ==
    /\ gen.pc = "start"
    /\ gen.script = "local"
    /\ LET NotDone(f) == ~Exists(output_file(f))
           files_to_process == SelectSeq(SelectSeq(gen.listing, IsChunkFile), NotDone)
       IN  gen' = IF files_to_process = << >>
                  THEN [gen EXCEPT !.pc = "completed"]
                  ELSE [gen EXCEPT !.pc = "pool",
                                   !.jobs = [i \in 1..(2 * Len(files_to_process)) |->
                                                NewJob(files_to_process[(i + 1) \div 2])]]
    /\ UNCHANGED << serviceVars, build, trunc >>

\* process_chunks_concurrently up to the submission of the jobs
Submit ==
    /\ gen.pc = "start"
    /\ gen.script = "local"
    /\ LET NotDone(f) == ~Exists(output_file(f))
           files_to_process == SelectSeq(SelectSeq(gen.listing, IsChunkFile), NotDone)
       IN  gen' = IF files_to_process = << >>
                  THEN [gen EXCEPT !.pc = "completed"]
                  ELSE [gen EXCEPT !.pc = "pool",
                                   !.jobs = [i \in 1..Len(files_to_process) |->
                                                NewJob(files_to_process[i])]]
    /\ UNCHANGED << serviceVars, build, trunc >>

Running == {j \in 1..Len(gen.jobs) : gen.jobs[j].pc = "requesting"}

\* a worker takes job j: process_file up to the call of generate_embedding
ProcessFile(j) ==
    /\ gen.pc = "pool"
    /\ j \in 1..Len(gen.jobs)
    /\ gen.jobs[j].pc = "submitted"
    /\ Cardinality(Running) < MAX_WORKERS
    /\ LET filename == gen.jobs[j].filename
       IN  gen' = IF Exists(output_file(filename))
                  THEN [gen EXCEPT !.jobs[j].pc = "done", !.jobs[j].result = "skipped",
                                   !.log = Log(filename, "skipping")]
                  ELSE IF filename \in gen.unreadable
                  THEN [gen EXCEPT !.jobs[j].pc = "done", !.jobs[j].result = "unread",
                                   !.log = Log(filename, "error_reading")]
                  ELSE [gen EXCEPT !.jobs[j].pc = "requesting", !.jobs[j].attempt = 1]
    /\ UNCHANGED << serviceVars, build, trunc >>

\* the embeddings directory after open(output_file, 'w') and json.dump
Written(file, disk) ==
    [gen.embeddings EXCEPT ![file] = CASE disk = "ok" -> "written"
                                       [] disk = "write_fails" -> "partial"
                                       [] OTHER -> @]

\* the endpoint answers the request of job j: the rest of the iteration of
\* the retry loop and, when generate_embedding returns, the rest of
\* process_file
Respond(j, reply, disk) ==
    /\ gen.pc = "pool"
    /\ j \in 1..Len(gen.jobs)
    /\ gen.jobs[j].pc = "requesting"
    /\ LET job == gen.jobs[j]
           filename == job.filename
           sent == [job EXCEPT !.requests = @ + 1, !.last = reply]
           does == local_attempt(reply)
       IN  gen' =
             CASE does = "return_embedding" ->
                    \* save_embedding catches what open and json.dump raise
                    [gen EXCEPT !.jobs[j] = [sent EXCEPT !.pc = "done", !.result = "embedding"],
                                !.embeddings = Written(output_file(filename), disk),
                                !.writes = IF disk = "open_fails" THEN @
                                           ELSE @ \cup {<< j, output_file(filename) >>},
                                !.log = Log(filename, IF disk = "ok" THEN "saved"
                                                      ELSE "error_saving")]
               [] does = "raise" ->
                    [gen EXCEPT !.jobs[j] = [sent EXCEPT !.pc = "raised", !.result = "raised"]]
               [] does = "retry" /\ job.attempt < MAX_RETRIES ->
                    [gen EXCEPT !.jobs[j] = [sent EXCEPT !.attempt = @ + 1]]
               [] does = "retry" /\ job.attempt >= MAX_RETRIES ->
                    [gen EXCEPT !.jobs[j] = [sent EXCEPT !.pc = "done", !.result = "None"],
                                !.log = Log(filename, "failed")]
    /\ UNCHANGED << serviceVars, build, trunc >>

AsCompleted_reraises(j) ==
    /\ gen.pc = "pool"
    /\ j \in 1..Len(gen.jobs)
    /\ gen.jobs[j].pc \in {"done", "raised"}
    /\ ~gen.jobs[j].collected
    /\ gen' = [gen EXCEPT !.jobs[j].collected = TRUE,
                          !.pc = IF gen.jobs[j].pc = "raised" THEN "crashed" ELSE @]
    /\ UNCHANGED << serviceVars, build, trunc >>

\* the loop over as_completed reaches the future of job j
AsCompleted(j) ==
    /\ gen.pc = "pool"
    /\ j \in 1..Len(gen.jobs)
    /\ gen.jobs[j].pc \in {"done", "raised"}
    /\ ~gen.jobs[j].collected
    /\ gen' = [gen EXCEPT !.jobs[j].collected = TRUE,
                          !.log = IF gen.jobs[j].pc = "raised"
                                  THEN Log(gen.jobs[j].filename, "unhandled")
                                  ELSE @]
    /\ UNCHANGED << serviceVars, build, trunc >>

\* every future has been collected and the pool is shut down
Completed ==
    /\ gen.pc = "pool"
    /\ \A j \in 1..Len(gen.jobs) : gen.jobs[j].collected
    /\ gen' = [gen EXCEPT !.pc = "completed"]
    /\ UNCHANGED << serviceVars, build, trunc >>

\* generate_embeddings_online_request.py, process_chunks: the loop reaches
\* the next file name of the listing
NextFile ==
    /\ gen.script = "online_request"
    /\ gen.pc \in {"start", "loop"}
    /\ Running = {}
    /\ gen.pos <= Len(gen.listing)
    /\ LET filename == gen.listing[gen.pos]
           next == [gen EXCEPT !.pc = "loop", !.pos = @ + 1]
       IN  gen' = IF ~IsChunkFile(filename) THEN next
                  ELSE IF Exists(output_file(filename))
                  THEN [next EXCEPT !.log = Log(filename, "skipping")]
                  ELSE IF filename \in gen.unreadable
                  THEN \* open(file_path) raises and nothing catches it
                       [gen EXCEPT !.pc = "crashed"]
                  ELSE [next EXCEPT !.jobs = Append(@, [NewJob(filename) EXCEPT
                                                          !.pc = "requesting",
                                                          !.attempt = 1])]
    /\ UNCHANGED << serviceVars, build, trunc >>

\* the endpoint answers the request of the file being processed
OnlineRespond(reply, disk) ==
    /\ gen.script = "online_request"
    /\ gen.pc = "loop"
    /\ Running # {}
    /\ LET j == CHOOSE k \in Running : TRUE
           job == gen.jobs[j]
           filename == job.filename
           sent == [job EXCEPT !.requests = @ + 1, !.last = reply]
           does == online_request_attempt(reply)
       IN  gen' =
             CASE does = "return_embedding" /\ disk = "ok" ->
                    [gen EXCEPT !.jobs[j] = [sent EXCEPT !.pc = "done", !.result = "embedding"],
                                !.embeddings = Written(output_file(filename), disk),
                                !.writes = @ \cup {<< j, output_file(filename) >>},
                                !.log = Log(filename, "saved")]
               [] does = "return_embedding" /\ disk # "ok" ->
                    \* open or json.dump raises and nothing catches it
                    [gen EXCEPT !.jobs[j] = [sent EXCEPT !.pc = "raised", !.result = "embedding"],
                                !.embeddings = Written(output_file(filename), disk),
                                !.writes = IF disk = "open_fails" THEN @
                                           ELSE @ \cup {<< j, output_file(filename) >>},
                                !.pc = "crashed"]
               [] does = "return_empty" ->
                    [gen EXCEPT !.jobs[j] = [sent EXCEPT !.pc = "done", !.result = "empty"],
                                !.log = Log(filename, "failed")]
               [] does = "raise" ->
                    [gen EXCEPT !.jobs[j] = [sent EXCEPT !.pc = "raised", !.result = "raised"],
                                !.pc = "crashed"]
               [] does = "retry" /\ job.attempt < MAX_RETRIES ->
                    [gen EXCEPT !.jobs[j] = [sent EXCEPT !.attempt = @ + 1]]
               [] does = "retry" /\ job.attempt >= MAX_RETRIES ->
                    [gen EXCEPT !.jobs[j] = [sent EXCEPT !.pc = "done", !.result = "None"],
                                !.log = Log(filename, "failed")]
    /\ UNCHANGED << serviceVars, build, trunc >>

\* the loop of process_chunks has passed the last file name
OnlineCompleted ==
    /\ gen.script = "online_request"
    /\ gen.pc \in {"start", "loop"}
    /\ Running = {}
    /\ gen.pos > Len(gen.listing)
    /\ gen' = [gen EXCEPT !.pc = "completed"]
    /\ UNCHANGED << serviceVars, build, trunc >>

JobIds == 1..Cardinality(OutputFiles)

GenNext ==
    \/ Submit
    \/ \E j \in JobIds : ProcessFile(j)
    \/ \E j \in JobIds, reply \in Responses, disk \in DiskOutcomes : Respond(j, reply, disk)
    \/ \E j \in JobIds : AsCompleted(j)
    \/ Completed
    \/ NextFile
    \/ \E reply \in Responses, disk \in DiskOutcomes : OnlineRespond(reply, disk)
    \/ OnlineCompleted

SpecGen == GenInit /\ [][GenNext]_vars

\* the workers of the pool and the main thread keep running, and every
\* request returns (it is sent with a timeout)
SpecGenFair == SpecGen /\ WF_vars(GenNext)

\* the failed attempts: timeout, connection error, non-200 status,
\* rate limit, bad JSON
FailedAttempts == {"timeout", "connection_error", "error_status", "rate_limited", "bad_json"}

Requesting(j) == gen.pc # "off" /\ j \in 1..Len(gen.jobs) /\ gen.jobs[j].pc = "requesting"

WrittenBy(j) == {w \in gen.writes : w[1] = j}

RetriesBounded ==
    gen.pc # "off" =>
        \A j \in 1..Len(gen.jobs) :
            LET job == gen.jobs[j]
            IN  /\ job.requests <= MAX_RETRIES
                /\ job.pc = "requesting" => job.requests = job.attempt - 1
                \* an embedding ends the loop at once
                /\ job.last = "embedding" =>
                      job.pc # "requesting" /\ job.result = "embedding"
                \* a failed attempt is followed by another one, up to the third
                /\ (job.last \in FailedAttempts /\ job.requests < MAX_RETRIES) =>
                      job.pc = "requesting"
                /\ (job.last \in FailedAttempts /\ job.requests = MAX_RETRIES) =>
                      /\ job.pc = "done"
                      /\ job.result = "None"
                /\ job.result = "None" =>
                      /\ job.requests = MAX_RETRIES
                      /\ << job.filename, "failed" >> \in gen.log
                      /\ WrittenBy(j) = {}
                      /\ gen.embeddings[output_file(job.filename)] = "none"

(***************************************************************************)
(* C12: for each chunk file generate_embedding sends at most MAX_RETRIES   *)
(* requests, returns as soon as a request yields an embedding, and after   *)
(* MAX_RETRIES failed attempts (timeout, connection error, non-200 status, *)
(* rate limit, bad JSON) gives up, the failure is logged and None is       *)
(* returned, so that no embedding file is written for the chunk; the retry *)
(* loop always terminates.                                                 *)
(***************************************************************************)
C12_RetriesBoundedAndEnd ==
    /\ []RetriesBounded
    /\ \A j \in JobIds : Requesting(j) ~> ~Requesting(j)

\* three attempts failed, the last on bad JSON, and no file was written
C12_Witness ==
    /\ gen.pc # "off"
    /\ \E j \in 1..Len(gen.jobs) :
          /\ gen.jobs[j].requests = MAX_RETRIES
          /\ gen.jobs[j].last = "bad_json"
          /\ gen.jobs[j].result = "None"
          /\ gen.embeddings[output_file(gen.jobs[j].filename)] = "none"

LocalRun == gen.pc # "off" /\ gen.script = "local"

\* the kinds of log line that report the failure of a job
FailureLogged(job) ==
    \E kind \in {"error_reading", "failed", "error_saving", "unhandled"} :
        << job.filename, kind >> \in gen.log

\* a step changes at most one job, and no embedding file but that job's
OneJobPerStep ==
    LocalRun /\ gen.pc = "pool" =>
        /\ Len(gen'.jobs) = Len(gen.jobs)
        /\ \A j, k \in 1..Len(gen.jobs) :
              (gen'.jobs[j] # gen.jobs[j] /\ gen'.jobs[k] # gen.jobs[k]) => j = k
        /\ \A o \in OutputFiles :
              gen'.embeddings[o] # gen.embeddings[o] =>
                  \E j \in 1..Len(gen.jobs) :
                      /\ gen'.jobs[j] # gen.jobs[j]
                      /\ o = output_file(gen.jobs[j].filename)

\* when the run has completed, every submitted file has its own outcome
OutcomeOfEachJob ==
    LocalRun /\ gen.pc = "completed" =>
        \A j \in 1..Len(gen.jobs) :
            LET job == gen.jobs[j]
            IN  /\ job.pc \in {"done", "raised"}
                /\ \/ /\ job.result = "embedding"
                      /\ << job.filename, "saved" >> \in gen.log
                      /\ gen.embeddings[output_file(job.filename)] = "written"
                   \/ FailureLogged(job)

(***************************************************************************)
(* C13: in the worker-pool generator, under every interleaving of the      *)
(* workers, a job that fails (unreadable chunk file, retries exhausted,    *)
(* save error, unhandled exception) neither stops nor alters another job:  *)
(* every submitted file is eventually processed to its own outcome         *)
(* (embedding saved or failure logged) and the run completes.              *)
(***************************************************************************)
C13_FailuresAreIsolated ==
    /\ [][OneJobPerStep]_vars
    /\ []OutcomeOfEachJob
    /\ LocalRun ~> (gen.pc = "completed")

\* the run completed, one job raised and the other one saved its embedding
C13_Witness ==
    /\ LocalRun
    /\ gen.pc = "completed"
    /\ \E j, k \in 1..Len(gen.jobs) :
          /\ gen.jobs[j].result = "raised"
          /\ gen.jobs[k].result = "embedding"
          /\ gen.embeddings[output_file(gen.jobs[k].filename)] = "written"

\* an embedding file that exists is left as it is
NeverOverwritten ==
    gen.pc # "off" =>
        \A o \in OutputFiles : gen.embeddings[o] # "none" => gen'.embeddings[o] = gen.embeddings[o]

\* a request is sent only for a chunk whose embedding file does not exist
NoRequestForExisting ==
    gen.pc # "off" =>
        \A j \in 1..Len(gen'.jobs) :
            LET sent_before == IF j <= Len(gen.jobs) THEN gen.jobs[j].requests ELSE 0
                asking_before == j <= Len(gen.jobs) /\ gen.jobs[j].pc = "requesting"
                asking_after == gen'.jobs[j].pc = "requesting"
            IN  (gen'.jobs[j].requests > sent_before \/ (asking_after /\ ~asking_before)) =>
                    gen.embeddings[output_file(gen'.jobs[j].filename)] = "none"

\* every chunk file has at most one job and every output file one writer
OneJobPerFile ==
    gen.pc # "off" =>
        /\ \A j, k \in 1..Len(gen.jobs) :
              gen.jobs[j].filename = gen.jobs[k].filename => j = k
        /\ \A v, w \in gen.writes : v[2] = w[2] => v[1] = w[1]
        /\ \A w \in gen.writes : w[2] = output_file(gen.jobs[w[1]].filename)
        /\ \A j \in 1..Len(gen.jobs) :
              gen.embeddings[output_file(gen.jobs[j].filename)] = "old" =>
                  gen.jobs[j].requests = 0 /\ gen.jobs[j].pc # "requesting"

(***************************************************************************)
(* C15: in both embedding generators an embedding file that already exists *)
(* is never overwritten and no request is sent for its chunk; in the       *)
(* worker-pool version each chunk file is submitted to exactly one job, so *)
(* under every interleaving no two workers write the same output file.     *)
(***************************************************************************)
C15_ExistingFilesKept ==
    /\ [][NeverOverwritten /\ NoRequestForExisting]_vars
    /\ []OneJobPerFile

\* one embedding file was there before the run and has no job; the other
\* chunk's job wrote its file
C15_Witness ==
    /\ LocalRun
    /\ gen.pc = "completed"
    /\ Len(gen.jobs) = 1
    /\ gen.jobs[1].result = "embedding"
    /\ gen.writes # {}
    /\ \E o \in OutputFiles : gen.embeddings[o] = "old" /\ o # output_file(gen.jobs[1].filename)

====
